---------------------------- MODULE Spec2Model ----------------------------
(***************************************************************************)
(* A model of src/hyperquant/clients/okex.py: the OKEx REST converter      *)
(* (OkexRESTConverterV1) and the OKEx REST client (OkexRESTClient).        *)
(*                                                                         *)
(* Three specifications share the module:                                  *)
(*   Spec      the client's request/response cycle and _on_response,       *)
(*   ConvSpec  the converter's functions, applied to bounded inputs,       *)
(*   HistSpec  fetch_trades_history driven against a mocked page sequence. *)
(*                                                                         *)
(* Strings that the code takes apart (symbols, URLs) are sequences of      *)
(* tokens; header values are tagged by the kind of literal they hold;      *)
(* Python floats are IEEE-754 doubles computed bit by bit.                 *)
(***************************************************************************)
EXTENDS Integers, Sequences, FiniteSets, TLC

VARIABLES
    pc,                             \* where the client's request cycle stands
    now,                            \* time.time(), in whole seconds
    response,                       \* the response handed to _on_response
    delay_before_next_request_sec,  \* the client's delay field
    prev_delay,                     \* the delay when _on_response was entered
    outcome,                        \* how the last _on_response call ended
    conv,                           \* the last converter call and its result
    hist                            \* the state of one fetch_trades_history call

vars == <<pc, now, response, delay_before_next_request_sec, prev_delay,
          outcome, conv, hist>>

clientVars == <<pc, now, response, delay_before_next_request_sec, prev_delay, outcome>>

-----------------------------------------------------------------------------
(* Bounds of the model.                                                    *)

MaxNow == 2          \* the clock runs over 0..MaxNow
MaxInitDelay == 1    \* the delay a session starts with: 0..MaxInitDelay
MaxRetry == 1        \* Retry-After integer literals: -1..MaxRetry
MaxReset == 2        \* x-ratelimit-reset integer literals: 0..MaxReset
MaxLimit == 3        \* x-ratelimit-limit integer literals: 0..MaxLimit, and 10, 20, ..
MaxRemaining == 1    \* x-ratelimit-remaining integer literals: 0..MaxRemaining
MaxTenths == 3       \* x-ratelimit-remaining decimal literals: 0.0 .. MaxTenths/10

-----------------------------------------------------------------------------
(* Python floats: IEEE-754 binary64, round to nearest, ties to even.       *)
(* A non-negative double is [m, e]: m its 53 significand bits, most        *)
(* significant first and leading bit 1, e the exponent of the last bit;    *)
(* its value is m * 2^e.  Zero has the empty significand.                  *)

Precision == 53      \* significand bits of a binary64
LimbBits == 12       \* width of a limb of the multi-limb arithmetic
GuardLimbs == 5      \* limbs of quotient computed below the binary point

Zeros(k) == [i \in 1..k |-> 0]

Front(s) == SubSeq(s, 1, Len(s) - 1)

Min(S) == CHOOSE x \in S : \A y \in S : x <= y

Max(S) == CHOOSE x \in S : \A y \in S : x >= y

RECURSIVE Pow2(_)
Pow2(k) == IF k = 0 THEN 1 ELSE 2 * Pow2(k - 1)

LimbBase == Pow2(LimbBits)

\* Bit sequences are most significant bit first.
RECURSIVE BitsVal(_)
BitsVal(b) == IF b = <<>> THEN 0 ELSE 2 * BitsVal(Front(b)) + b[Len(b)]

NatBits(n) ==
    IF n = 0 THEN <<>>
    ELSE LET len == Max({k \in 1..(2 * LimbBits) : n >= Pow2(k - 1)})
         IN  [j \in 1..len |-> (n \div Pow2(len - j)) % 2]

Strip(b) ==
    LET ones == {i \in 1..Len(b) : b[i] = 1}
    IN  IF ones = {} THEN <<>> ELSE SubSeq(b, Min(ones), Len(b))

Inc(b) ==
    LET zs == {i \in 1..Len(b) : b[i] = 0}
    IN  IF zs = {} THEN <<1>> \o Zeros(Len(b))
        ELSE [i \in 1..Len(b) |->
                IF i < Max(zs) THEN b[i] ELSE IF i = Max(zs) THEN 1 ELSE 0]

\* Naturals too wide for one integer are sequences of limbs, base LimbBase,
\* least significant limb first.
ToLimbs(bits) ==
    LET n == Len(bits)
    IN  [k \in 1..((n + LimbBits - 1) \div LimbBits) |->
            BitsVal(SubSeq(bits, Max({1, n - LimbBits * k + 1}), n - LimbBits * (k - 1)))]

FromLimbs(limbs) ==
    LET n == Len(limbs) * LimbBits
    IN  Strip([j \in 1..n |->
            (limbs[Len(limbs) - ((j - 1) \div LimbBits)]
                \div Pow2(LimbBits - 1 - ((j - 1) % LimbBits))) % 2])

RECURSIVE LimbsMulSmall(_, _, _)
LimbsMulSmall(a, k, carry) ==
    IF a = <<>> THEN (IF carry = 0 THEN <<>> ELSE <<carry>>)
    ELSE LET t == Head(a) * k + carry
         IN  <<t % LimbBase>> \o LimbsMulSmall(Tail(a), k, t \div LimbBase)

RECURSIVE LimbsAdd(_, _, _)
LimbsAdd(a, b, carry) ==
    IF a = <<>> /\ b = <<>> THEN (IF carry = 0 THEN <<>> ELSE <<carry>>)
    ELSE LET t == (IF a = <<>> THEN 0 ELSE Head(a)) + (IF b = <<>> THEN 0 ELSE Head(b)) + carry
         IN  <<t % LimbBase>> \o LimbsAdd(IF a = <<>> THEN <<>> ELSE Tail(a),
                                          IF b = <<>> THEN <<>> ELSE Tail(b),
                                          t \div LimbBase)

RECURSIVE LimbsMul(_, _)
LimbsMul(a, b) ==
    IF a = <<>> THEN <<>>
    ELSE LimbsAdd(LimbsMulSmall(b, Head(a), 0), <<0>> \o LimbsMul(Tail(a), b), 0)

\* Long division by a small d, from the most significant limb down.
RECURSIVE LimbsDivSmall(_, _, _)
LimbsDivSmall(a, d, rem) ==
    IF a = <<>> THEN [q |-> <<>>, r |-> rem]
    ELSE LET cur == rem * LimbBase + a[Len(a)]
             rest == LimbsDivSmall(Front(a), d, cur % d)
         IN  [q |-> Append(rest.q, cur \div d), r |-> rest.r]

FloatZero == [m |-> <<>>, e |-> 0]

\* The double nearest to bits * 2^e (+ a non-zero fraction below 2^e when sticky).
RoundNearestEven(bits, e, sticky) ==
    IF Len(bits) <= Precision
    THEN [m |-> bits \o Zeros(Precision - Len(bits)), e |-> e - (Precision - Len(bits))]
    ELSE LET keep == SubSeq(bits, 1, Precision)
             rest == SubSeq(bits, Precision + 1, Len(bits))
             st == sticky \/ \E i \in 2..Len(rest) : rest[i] = 1
             up == rest[1] = 1 /\ (st \/ keep[Precision] = 1)
             r == IF up THEN Inc(keep) ELSE keep
             ex == e + Len(rest)
         IN  IF Len(r) > Precision
             THEN [m |-> SubSeq(r, 1, Precision), e |-> ex + 1]
             ELSE [m |-> r, e |-> ex]

\* float(n) of a non-negative int
FloatOfInt(n) == IF n = 0 THEN FloatZero ELSE RoundNearestEven(NatBits(n), 0, FALSE)

\* float("d.f"), the decimal literal worth t/10: the double nearest to t/10
FloatOfTenths(t) ==
    IF t = 0 THEN FloatZero
    ELSE LET dv == LimbsDivSmall(Zeros(GuardLimbs) \o <<t>>, 10, 0)
         IN  RoundNearestEven(FromLimbs(dv.q), -(GuardLimbs * LimbBits), dv.r # 0)

\* x * y
FloatMul(x, y) ==
    IF x.m = <<>> \/ y.m = <<>> THEN FloatZero
    ELSE RoundNearestEven(FromLimbs(LimbsMul(ToLimbs(x.m), ToLimbs(y.m))), x.e + y.e, FALSE)

\* x < y
FloatLess(x, y) ==
    IF y.m = <<>> THEN FALSE
    ELSE IF x.m = <<>> THEN TRUE
    ELSE IF x.e # y.e THEN x.e < y.e
    ELSE \E i \in 1..Precision :
            /\ x.m[i] < y.m[i]
            /\ \A j \in 1..(i - 1) : x.m[j] = y.m[j]

\* The literal 0.1: 0x1999999999999A * 2^-56
PointOne ==
    [m |-> <<1>> \o [i \in 1..48 |-> IF i % 4 \in {1, 0} THEN 1 ELSE 0] \o <<1, 0, 1, 0>>,
     e |-> -56]

-----------------------------------------------------------------------------
(* HTTP responses.  A header is absent or holds text of one of three kinds: *)
(* an integer literal ("12"), a decimal literal with one fractional digit   *)
(* ("0.3", n counting tenths), or text that is no number ("soon").          *)

Absent == [kind |-> "absent", n |-> 0]
HText == [kind |-> "text", n |-> 0]
HInt(k) == [kind |-> "int", n |-> k]
HDec(t) == [kind |-> "dec", n |-> t]

LimitInts == (0..MaxLimit) \cup {10 * r : r \in 1..MaxRemaining}

RetryAfterVals == {Absent, HText, HDec(10)} \cup {HInt(k) : k \in -1..MaxRetry}
LimitVals == {Absent, HText, HDec(100)} \cup {HInt(k) : k \in LimitInts}
RemainingVals ==
    {Absent, HText} \cup {HInt(k) : k \in 0..MaxRemaining} \cup {HDec(t) : t \in 0..MaxTenths}
ResetVals == {Absent, HText, HDec(10)} \cup {HInt(k) : k \in 0..MaxReset}

Responses ==
    [ok : BOOLEAN,
     headers : [retry_after : RetryAfterVals, limit : LimitVals,
                remaining : RemainingVals, reset : ResetVals]]

NoResponse ==
    [ok |-> TRUE,
     headers |-> [retry_after |-> Absent, limit |-> Absent,
                  remaining |-> Absent, reset |-> Absent]]

\* response.headers[name] followed by int(): KeyError for a missing header,
\* ValueError for text int() does not accept (a decimal literal included).
PyInt(h) ==
    CASE h.kind = "absent" -> [exc |-> "KeyError", v |-> 0]
      [] h.kind = "int" -> [exc |-> "none", v |-> h.n]
      [] OTHER -> [exc |-> "ValueError", v |-> 0]

\* The doubles float() gives for the numeric literals of the model, and the
\* products ratelimit * 0.1, each computed once.
FloatTable ==
    [h \in {x \in RemainingVals : x.kind \in {"int", "dec"}} |->
        IF h.kind = "int" THEN FloatOfInt(h.n) ELSE FloatOfTenths(h.n)]

TenthTable == [n \in LimitInts |-> FloatMul(FloatOfInt(n), PointOne)]

\* response.headers[name] followed by float()
PyFloat(h) ==
    CASE h.kind = "absent" -> [exc |-> "KeyError", v |-> FloatZero]
      [] h.kind \in {"int", "dec"} -> [exc |-> "none", v |-> FloatTable[h]]
      [] OTHER -> [exc |-> "ValueError", v |-> FloatZero]

precision_sec == 1

\* remaining_requests < ratelimit * 0.1
BelowTenth(remaining_requests, ratelimit) ==
    FloatLess(remaining_requests, TenthTable[ratelimit])

\* RatelimitDelay with handlers that also clear the delay.
RatelimitDelay_ClearOnError(resp, delay, t) ==
    LET ratelimit == PyInt(resp.headers.limit)
        remaining_requests == PyFloat(resp.headers.remaining)
        reset_ratelimit_timestamp == PyInt(resp.headers.reset)
    IN  IF \/ ratelimit.exc # "none"
           \/ remaining_requests.exc # "none"
           \/ reset_ratelimit_timestamp.exc # "none"
        THEN [delay |-> 0, outcome |-> "returned", caught |-> "Exception"]
        ELSE IF BelowTenth(remaining_requests.v, ratelimit.v)
        THEN [delay |-> reset_ratelimit_timestamp.v - t + precision_sec,
              outcome |-> "returned", caught |-> "none"]
        ELSE [delay |-> 0, outcome |-> "returned", caught |-> "none"]

\* The else branch of _on_response: the try block and its two handlers, which
\* log and return.  The delay is assigned only after all three headers parsed.
RatelimitDelay(resp, delay, t) ==
    LET ratelimit == PyInt(resp.headers.limit)
        remaining_requests == PyFloat(resp.headers.remaining)
        reset_ratelimit_timestamp == PyInt(resp.headers.reset)
    IN  IF ratelimit.exc # "none"
        THEN [delay |-> delay, outcome |-> "returned", caught |-> ratelimit.exc]
        ELSE IF remaining_requests.exc # "none"
        THEN [delay |-> delay, outcome |-> "returned", caught |-> remaining_requests.exc]
        ELSE IF reset_ratelimit_timestamp.exc # "none"
        THEN [delay |-> delay, outcome |-> "returned", caught |-> reset_ratelimit_timestamp.exc]
        ELSE IF BelowTenth(remaining_requests.v, ratelimit.v)
        THEN [delay |-> reset_ratelimit_timestamp.v - t + precision_sec,
              outcome |-> "returned", caught |-> "none"]
        ELSE [delay |-> 0, outcome |-> "returned", caught |-> "none"]

\* The if branch: int() of the Retry-After header, outside any try block.
RetryAfterDelay(resp, delay) ==
    LET r == PyInt(resp.headers.retry_after)
    IN  IF r.exc = "none"
        THEN [delay |-> r.v, outcome |-> "returned", caught |-> "none"]
        ELSE [delay |-> delay, outcome |-> "raised", caught |-> "none"]

\* RetryRuleApplies without the test of response.ok.
RetryRuleApplies_OkIgnored(resp) == resp.ok /\ resp.headers.retry_after.kind # "absent"

RetryRuleApplies(resp) == ~resp.ok /\ resp.headers.retry_after.kind # "absent"

\* _on_response(response, result): the delay after the call and how it ended.
on_response(resp, delay, t) ==
    IF RetryRuleApplies(resp)
    THEN RetryAfterDelay(resp, delay)
    ELSE RatelimitDelay(resp, delay, t)

-----------------------------------------------------------------------------
(* The client's request cycle.                                             *)

NoConv == [op |-> "none"]
NoHist == [pc |-> "none"]

Init ==
    /\ pc = "idle"
    /\ now = 0
    /\ response = NoResponse
    /\ delay_before_next_request_sec \in 0..MaxInitDelay
    /\ prev_delay = delay_before_next_request_sec
    /\ outcome = "none"
    /\ conv = NoConv
    /\ hist = NoHist

\* The client issues a request.
SendRequest ==
    /\ pc = "idle"
    /\ pc' = "await"
    /\ response' = NoResponse
    /\ outcome' = "none"
    /\ prev_delay' = delay_before_next_request_sec
    /\ UNCHANGED <<now, delay_before_next_request_sec, conv, hist>>

\* Time passes while the request is in flight.
Tick ==
    /\ pc = "await"
    /\ now < MaxNow
    /\ now' = now + 1
    /\ UNCHANGED <<pc, response, delay_before_next_request_sec, prev_delay, outcome, conv, hist>>

\* The transport returns a response.
Respond ==
    /\ pc = "await"
    /\ \E resp \in Responses : response' = resp
    /\ pc' = "responded"
    /\ UNCHANGED <<now, delay_before_next_request_sec, prev_delay, outcome, conv, hist>>

\* The hook runs on the response.
OnResponse ==
    /\ pc = "responded"
    /\ LET r == on_response(response, delay_before_next_request_sec, now)
       IN  /\ delay_before_next_request_sec' = r.delay
           /\ outcome' = r.outcome
    /\ prev_delay' = delay_before_next_request_sec
    /\ pc' = "idle"
    /\ UNCHANGED <<now, response, conv, hist>>

Next == SendRequest \/ Tick \/ Respond \/ OnResponse

Spec == Init /\ [][Next]_vars

-----------------------------------------------------------------------------
(* Properties of _on_response, checked under Spec.                         *)

\* _on_response has run on `response`, and nothing has happened since.
Handled == pc = "idle" /\ outcome # "none"

AllRatelimitInts(resp) ==
    /\ resp.headers.limit.kind = "int"
    /\ resp.headers.remaining.kind = "int"
    /\ resp.headers.reset.kind = "int"

\* C1: a failed response with a Retry-After header holding the integer N
\* leaves the delay at N, whatever the delay was before and whatever the
\* rate-limit headers hold.
C1_RetryAfterVerbatim ==
    (Handled /\ ~response.ok /\ response.headers.retry_after.kind = "int")
        => /\ outcome = "returned"
           /\ delay_before_next_request_sec = response.headers.retry_after.n

\* C1's case: a failed response with Retry-After, a different prior delay, and
\* rate-limit headers that would have asked for yet another delay.
C1_Witness ==
    /\ Handled
    /\ ~response.ok
    /\ response.headers.retry_after.kind = "int"
    /\ response.headers.retry_after.n > 0
    /\ prev_delay # response.headers.retry_after.n
    /\ AllRatelimitInts(response)
    /\ 10 * response.headers.remaining.n < response.headers.limit.n
    /\ response.headers.reset.n - now + 1 # response.headers.retry_after.n
    /\ delay_before_next_request_sec = response.headers.retry_after.n

\* The value of a numeric header, in tenths.
Tenths(h) == IF h.kind = "int" THEN 10 * h.n ELSE h.n

\* C2: when the retry rule does not apply and the three rate-limit headers
\* are present and numeric (limit and reset as the integers int() reads,
\* remaining as any number float() reads), the delay after the call is
\* (reset - now) + 1 if remaining is strictly below a tenth of limit, and 0
\* otherwise, a remaining of exactly a tenth of limit included.
C2_RatelimitDelay ==
    (/\ Handled
     /\ ~RetryRuleApplies(response)
     /\ response.headers.limit.kind = "int"
     /\ response.headers.remaining.kind \in {"int", "dec"}
     /\ response.headers.reset.kind = "int")
        => delay_before_next_request_sec =
             IF Tenths(response.headers.remaining) < response.headers.limit.n
             THEN (response.headers.reset.n - now) + 1
             ELSE 0

\* C3: _on_response returns normally on every response.
C3_NeverAborts == outcome # "raised"

\* C4: when the retry rule does not apply and rate-limit headers are missing,
\* the delay after the call is the delay before it.
C4_DelayUnchanged ==
    (/\ Handled
     /\ ~RetryRuleApplies(response)
     /\ \/ response.headers.limit.kind = "absent"
        \/ response.headers.remaining.kind = "absent"
        \/ response.headers.reset.kind = "absent")
        => /\ outcome = "returned"
           /\ delay_before_next_request_sec = prev_delay

\* C4's case: a response with no throttling header at all arrives while the
\* delay stands at a value an earlier response set.
C4_Witness ==
    /\ Handled
    /\ response.headers.retry_after.kind = "absent"
    /\ response.headers.limit.kind = "absent"
    /\ response.headers.remaining.kind = "absent"
    /\ response.headers.reset.kind = "absent"
    /\ prev_delay > MaxInitDelay
    /\ delay_before_next_request_sec = prev_delay

\* C10: the delay is never negative.
C10_DelayNonNegative == delay_before_next_request_sec >= 0

-----------------------------------------------------------------------------
(* OkexRESTConverterV1.  Text the converter takes apart is a sequence of   *)
(* tokens: a symbol is a sequence of characters, a URL a sequence of the   *)
(* pieces it is built from.                                                *)

MaxSymLen == 2       \* symbols have at most MaxSymLen characters
MaxSymbols == 2      \* a symbols payload lists at most MaxSymbols symbols

SymChars == {"a", "B", "/"}

SeqsUpTo(S, n) == UNION {[1..k -> S] : k \in 0..n}

Symbols == SeqsUpTo(SymChars, MaxSymLen)

TRADE == "trade"
TRADE_HISTORY == "trade/history"
SYMBOLS == "symbols"
Endpoints == {TRADE, TRADE_HISTORY, SYMBOLS}

None == "<None>"

\* ParamName, in the order the client lays the params out.
ParamOrder ==
    <<"symbol", "limit", "is_use_max_limit", "from_item", "to_item",
      "sorting", "from_time", "to_time">>

OptionalParams == {ParamOrder[i] : i \in 2..Len(ParamOrder)}

base_url(version) == <<"https://www.okex.com/api/v", version, "/">>

endpoint_lookup ==
    [e \in {TRADE, TRADE_HISTORY} |-> <<"trades", "/", "{symbol}">>]

\* param_name_lookup with sorting passed to the venue.
param_name_lookup_SortingSent ==
    [p \in OptionalParams |->
        CASE p = "limit" -> "limit_trades"
          [] p = "sorting" -> "sort"
          [] p \in {"from_item", "to_item", "from_time"} -> "timestamp"
          [] OTHER -> None]

param_name_lookup ==
    [p \in OptionalParams |->
        CASE p = "limit" -> "limit_trades"
          [] p \in {"is_use_max_limit", "sorting", "to_time"} -> None
          [] p \in {"from_item", "to_item", "from_time"} -> "timestamp"]

param_value_lookup(value) ==
    IF value = "default_sorting" THEN "descending" ELSE value

\* The canonical params of a request: the symbol, and any of the others.
ParamValues(p) ==
    CASE p = "limit" -> {"10"}
      [] p = "is_use_max_limit" -> {"True"}
      [] p = "sorting" -> {"ascending", "default_sorting"}
      [] p = "from_item" -> {"1"}
      [] p = "to_item" -> {"2"}
      [] p = "from_time" -> {"3"}
      [] p = "to_time" -> {"4"}

ParamSets ==
    UNION {{[p \in D |-> f[p]] : f \in {g \in [D -> UNION {ParamValues(p) : p \in D}] :
                                          \A p \in D : g[p] \in ParamValues(p)}} :
           D \in SUBSET OptionalParams}

\* The path template with its placeholder filled in.
RenderPath(template, symbol) ==
    LET i == CHOOSE k \in 1..Len(template) : template[k] = "{symbol}"
    IN  SubSeq(template, 1, i - 1) \o symbol \o SubSeq(template, i + 1, Len(template))

\* The last param, in the client's order, that is sent under venue key k.
LastUnder(k, lookup, params) ==
    ParamOrder[Max({i \in 2..Len(ParamOrder) :
                      ParamOrder[i] \in DOMAIN params /\ lookup[ParamOrder[i]] = k})]

\* RESTConverter.prepare_params: the rendered path, and the params renamed
\* to venue keys, those mapped to nothing dropped.  Whether the generic code
\* has already removed the symbol the path consumed is left open (keepSymbol).
BasePrepareParams(endpoint, symbol, params, keepSymbol) ==
    LET lookup == param_name_lookup
        keys == {lookup[p] : p \in DOMAIN params} \ {None}
        renamed == [k \in keys |-> param_value_lookup(params[LastUnder(k, lookup, params)])]
    IN  [resources |-> <<RenderPath(endpoint_lookup[endpoint], symbol)>>,
         platform_params |->
            IF keepSymbol
            THEN [k \in keys \cup {"symbol"} |-> IF k = "symbol" THEN "<symbol>" ELSE renamed[k]]
            ELSE renamed]

\* OkexRESTConverterV1.prepare_params
prepare_params(endpoint, symbol, params, keepSymbol) ==
    LET r == BasePrepareParams(endpoint, symbol, params, keepSymbol)
    IN  IF DOMAIN r.platform_params # {} /\ "symbol" \in DOMAIN r.platform_params
        THEN [r EXCEPT !.platform_params =
                [k \in DOMAIN r.platform_params \ {"symbol"} |-> r.platform_params[k]]]
        ELSE r

\* str.split(sep): the pieces of s between the separators.
RECURSIVE Split(_, _)
Split(s, sep) ==
    LET at == {i \in 1..Len(s) : s[i] = sep}
    IN  IF at = {} THEN <<s>>
        ELSE <<SubSeq(s, 1, Min(at) - 1)>> \o Split(SubSeq(s, Min(at) + 1, Len(s)), sep)

\* urljoin(base, path) for a relative path of one segment: the base up to its
\* last slash, without the empty segments a doubled slash makes, then the path.
UrlJoin(base, path) ==
    LET keep == Max({i \in 1..Len(base) : base[i] # "/"})
    IN  SubSeq(base, 1, keep) \o <<"/">> \o path

\* OkexRESTConverterV1.make_url_and_platform_params, the symbol being one of
\* the params.  The two-name unpacking of the split raises ValueError unless
\* the split gives exactly two pieces.
make_url_and_platform_params(endpoint, symbol, params, keepSymbol, version) ==
    LET v == IF version = None THEN "1" ELSE version
        url == base_url(v)
        prepared == prepare_params(endpoint, symbol, params, keepSymbol)
        parts == Split(prepared.resources[1], "/")
    IN  IF Len(parts) # 2
        THEN [raised |-> "ValueError", url |-> <<>>, platform_params |-> <<>>]
        ELSE [raised |-> None,
              url |-> UrlJoin(url \o <<"/">>, parts[1]) \o <<".do">>
                        \o <<"?symbol=">> \o parts[2],
              platform_params |-> prepared.platform_params]

\* str.upper(), character by character
UpperChar(c) == IF c = "a" THEN "A" ELSE c

Upper(s) == [i \in 1..Len(s) |-> UpperChar(s[i])]

\* RESTConverter.parse: the generic parse of the same endpoint and payload.
BaseParse(endpoint, data) == [via |-> "super", endpoint |-> endpoint, data |-> data]

\* parse that upper-cases whatever the endpoint.
parse_AnyEndpoint(endpoint, data) ==
    IF data # <<>>
    THEN [via |-> "override", endpoint |-> endpoint,
          data |-> [i \in 1..Len(data) |-> Upper(data[i])]]
    ELSE BaseParse(endpoint, data)

\* OkexRESTConverterV1.parse
parse(endpoint, data) ==
    IF data # <<>> /\ endpoint = SYMBOLS
    THEN [via |-> "override", endpoint |-> endpoint,
          data |-> [i \in 1..Len(data) |-> Upper(data[i])]]
    ELSE BaseParse(endpoint, data)

Direction_SELL == "Direction.SELL"
Direction_BUY == "Direction.BUY"

\* What the venue may send as a trade's "type", None standing for no value.
RawDirections == {"buy", "sell", "", "BUY", "hold", None}

\* RESTConverter._parse_item: a Trade for the trade endpoints, its direction
\* the raw "type" field; an item of another class otherwise.
BaseParseItem(endpoint, item_data) ==
    IF endpoint \in {TRADE, TRADE_HISTORY}
    THEN [class |-> "Trade", direction |-> item_data.type]
    ELSE [class |-> "Other", direction |-> item_data.type]

Truthy(x) == x # "" /\ x # None

\* OkexRESTConverterV1._parse_item
parse_item(endpoint, item_data) ==
    LET result == BaseParseItem(endpoint, item_data)
    IN  IF result.class = "Trade" /\ Truthy(result.direction)
        THEN [result EXCEPT !.direction =
                IF result.direction = "sell" THEN Direction_SELL
                ELSE IF result.direction = "buy" THEN Direction_BUY
                ELSE None]
        ELSE result

-----------------------------------------------------------------------------
(* The converter's functions applied to inputs of the bounded sets.        *)

PrepareParams ==
    /\ conv = NoConv
    /\ \E endpoint \in DOMAIN endpoint_lookup, symbol \in Symbols,
          params \in ParamSets, keepSymbol \in BOOLEAN :
        /\ conv' = [op |-> "prepare_params", endpoint |-> endpoint, symbol |-> symbol,
                    params |-> params,
                    out |-> prepare_params(endpoint, symbol, params, keepSymbol)]
        /\ UNCHANGED <<clientVars, hist>>

MakeUrl ==
    /\ conv = NoConv
    /\ \E endpoint \in DOMAIN endpoint_lookup, symbol \in Symbols,
          params \in ParamSets, keepSymbol \in BOOLEAN, version \in {None, "1", "2"} :
        /\ conv' = [op |-> "make_url", endpoint |-> endpoint, symbol |-> symbol,
                    params |-> params, version |-> version,
                    out |-> make_url_and_platform_params(endpoint, symbol, params,
                                                         keepSymbol, version)]
        /\ UNCHANGED <<clientVars, hist>>

Parse ==
    /\ conv = NoConv
    /\ \E endpoint \in Endpoints, data \in SeqsUpTo(Symbols, MaxSymbols) :
        /\ conv' = [op |-> "parse", endpoint |-> endpoint, data |-> data,
                    out |-> parse(endpoint, data)]
        /\ UNCHANGED <<clientVars, hist>>

ParseItem ==
    /\ conv = NoConv
    /\ \E endpoint \in Endpoints, type \in RawDirections :
        /\ conv' = [op |-> "parse_item", endpoint |-> endpoint, type |-> type,
                    out |-> parse_item(endpoint, [type |-> type])]
        /\ UNCHANGED <<clientVars, hist>>

\* The caller takes the result; the converter keeps nothing between calls.
ConvReturn ==
    /\ conv # NoConv
    /\ conv' = NoConv
    /\ UNCHANGED <<clientVars, hist>>

ConvNext == PrepareParams \/ MakeUrl \/ Parse \/ ParseItem \/ ConvReturn

ConvSpec == Init /\ [][ConvNext]_vars

-----------------------------------------------------------------------------
(* Properties of the converter, checked under ConvSpec.                    *)

\* C5: the direction of a parsed Trade is Direction.BUY for a raw "buy",
\* Direction.SELL for a raw "sell", and None for every other raw value, the
\* empty string included.
C5_DirectionTotal ==
    (conv.op = "parse_item" /\ conv.out.class = "Trade")
        => conv.out.direction =
             IF conv.type = "buy" THEN Direction_BUY
             ELSE IF conv.type = "sell" THEN Direction_SELL
             ELSE None

\* C6: for the trade endpoints and every set of canonical params,
\* prepare_params emits no key for IS_USE_MAX_LIMIT, SORTING or TO_TIME (only
\* the venue keys of the supported params appear), and every supported param
\* given is emitted under its venue key.
C6_UnsupportedDropped ==
    conv.op = "prepare_params"
        => LET keys == DOMAIN conv.out.platform_params
               given == DOMAIN conv.params
           IN  /\ keys \subseteq {"limit_trades", "timestamp"}
               /\ "limit" \in given
                    => /\ "limit_trades" \in keys
                       /\ conv.out.platform_params["limit_trades"] = conv.params["limit"]
               /\ given \cap {"from_item", "to_item", "from_time"} # {}
                    => "timestamp" \in keys

\* C6's case: unsupported and supported params given together.
C6_Witness ==
    /\ conv.op = "prepare_params"
    /\ DOMAIN conv.params = OptionalParams
    /\ DOMAIN conv.out.platform_params = {"limit_trades", "timestamp"}

\* C8: for a trade endpoint, a symbol S and a version V, make_url_and_
\* platform_params returns, without failing, the versioned base URL followed
\* by "trades", ".do" and "?symbol=S", and platform params without the symbol.
C8_UrlComposition ==
    conv.op = "make_url"
        => /\ conv.out.raised = None
           /\ conv.out.url =
                base_url(IF conv.version = None THEN "1" ELSE conv.version)
                    \o <<"trades", ".do", "?symbol=">> \o conv.symbol
           /\ "symbol" \notin DOMAIN conv.out.platform_params

IsUpperOf(u, c) == IF c = "a" THEN u = "A" ELSE u = c

\* C9: for SYMBOLS and a non-empty list of symbols, parse returns a list of
\* the same length and order whose elements are the inputs upper-cased, and
\* parsing that list again gives it back; for any other endpoint, and for
\* empty data, the result is the generic parse of the same arguments.
C9_SymbolsUppercased ==
    conv.op = "parse"
        => IF conv.endpoint = SYMBOLS /\ conv.data # <<>>
           THEN /\ conv.out.via = "override"
                /\ Len(conv.out.data) = Len(conv.data)
                /\ \A i \in 1..Len(conv.data) :
                      /\ Len(conv.out.data[i]) = Len(conv.data[i])
                      /\ \A j \in 1..Len(conv.data[i]) :
                            IsUpperOf(conv.out.data[i][j], conv.data[i][j])
                /\ parse(SYMBOLS, conv.out.data).data = conv.out.data
           ELSE /\ conv.out.via = "super"
                /\ conv.out.endpoint = conv.endpoint
                /\ conv.out.data = conv.data

\* C9's case: a symbols payload of two symbols, one of them in lower case.
C9_Witness ==
    /\ conv.op = "parse"
    /\ conv.endpoint = SYMBOLS
    /\ Len(conv.data) = MaxSymbols
    /\ \E i \in 1..Len(conv.data) : \E j \in 1..Len(conv.data[i]) : conv.data[i][j] = "a"
    /\ conv.out.data # conv.data

-----------------------------------------------------------------------------
(* fetch_trades_history against a mocked venue.  The venue answers the     *)
(* i-th request with the i-th mocked page, and with an empty page once the *)
(* mocked pages are used up.  A page is the number of trades it holds, or  *)
(* ErrorPage; trades are numbered 1, 2, .. in the order the venue returns  *)
(* them, and a trade's number is its item id.                              *)

MaxHistLimit == 2    \* the caller's limit: 1..MaxHistLimit
MaxPages == 3        \* the mocked venue holds at most MaxPages pages
MaxFromItem == 1     \* the caller's from_item: 0 (None) .. MaxFromItem

ErrorPage == -1

\* fetch_trades_history with limit and from_item in each other's place.
fetch_trades_history_ArgsSwapped(limit, from_item) ==
    [limit |-> from_item, from_item |-> limit]

\* OkexRESTClient.fetch_trades_history: the arguments handed to the generic
\* fetch_trades_history.
fetch_trades_history(limit, from_item) ==
    [limit |-> limit, from_item |-> from_item]

HistInit ==
    /\ pc = "idle"
    /\ now = 0
    /\ response = NoResponse
    /\ delay_before_next_request_sec = 0
    /\ prev_delay = 0
    /\ outcome = "none"
    /\ conv = NoConv
    /\ \E limit \in 1..MaxHistLimit, from_item \in 0..MaxFromItem,
          pages \in SeqsUpTo((0..MaxHistLimit) \cup {ErrorPage}, MaxPages) :
            /\ \A i \in 1..Len(pages) : pages[i] <= limit
            /\ hist = [pc |-> "start", limit |-> limit, from_item |-> from_item,
                       pages |-> pages, loop_limit |-> 0, cursor |-> 0,
                       requests |-> <<>>, result |-> <<>>, error |-> FALSE]

\* The call enters the generic loop with the arguments the override passes.
FetchTradesHistory ==
    /\ hist.pc = "start"
    /\ LET args == fetch_trades_history(hist.limit, hist.from_item)
       IN  hist' = [hist EXCEPT !.pc = "request",
                                !.loop_limit = args.limit,
                                !.cursor = args.from_item]
    /\ UNCHANGED <<clientVars, conv>>

\* One request of the loop, from the current cursor.
HistRequest ==
    /\ hist.pc = "request"
    /\ hist' = [hist EXCEPT !.pc = "await", !.requests = Append(@, hist.cursor)]
    /\ UNCHANGED <<clientVars, conv>>

\* The page comes back: an Error ends the call, a short page ends it with
\* the trades gathered, a full page moves the cursor to its last trade.
HistResponse ==
    /\ hist.pc = "await"
    /\ LET served == Len(hist.requests)
           page == IF served <= Len(hist.pages) THEN hist.pages[served] ELSE 0
           first == Len(hist.result) + 1
           items == [i \in 1..page |-> first + i - 1]
       IN  IF page = ErrorPage
           THEN hist' = [hist EXCEPT !.pc = "done", !.error = TRUE]
           ELSE hist' = [hist EXCEPT
                            !.result = @ \o items,
                            !.pc = IF page < hist.loop_limit THEN "done" ELSE "request",
                            !.cursor = IF page = 0 THEN @ ELSE items[page]]
    /\ UNCHANGED <<clientVars, conv>>

HistNext == FetchTradesHistory \/ HistRequest \/ HistResponse

HistSpec == HistInit /\ [][HistNext]_vars

\* The mocked pages are k full pages followed by a short one.
FullThenShort(k) ==
    /\ k + 1 <= Len(hist.pages)
    /\ \A i \in 1..k : hist.pages[i] = hist.limit
    /\ hist.pages[k + 1] \in 0..(hist.limit - 1)

\* C7: against k full pages followed by a short page, the call issues at
\* most one request per page and, once it has returned, has issued exactly
\* k + 1 requests, each after the first from the last trade of the page
\* before it, and returns the trades of the k + 1 pages in order.
C7_PaginationTerminates ==
    \A k \in 0..MaxPages :
        FullThenShort(k)
            => /\ Len(hist.requests) <= k + 1
               /\ hist.pc = "done"
                    => /\ ~hist.error
                       /\ Len(hist.requests) = k + 1
                       /\ \A i \in 1..k : hist.requests[i + 1] = i * hist.limit
                       /\ hist.result = [i \in 1..(k * hist.limit + hist.pages[k + 1]) |-> i]

\* C7's case: a full page, then a short page that is not empty, then a page
\* the call never asks for.
C7_Witness ==
    /\ hist.pc = "done"
    /\ hist.limit > 1
    /\ FullThenShort(1)
    /\ hist.pages[2] > 0
    /\ Len(hist.pages) > 2
    /\ Len(hist.requests) = 2
    /\ Len(hist.result) = hist.limit + hist.pages[2]

=============================================================================
